---- MODULE Spec2Model ----
(***************************************************************************)
(* A model of package lambdaproxy: the router (handler.go) and the         *)
(* request/response/context types (the second source file).                *)
(*                                                                         *)
(* Go strings are sequences of one-character strings, so that trimming,    *)
(* lower-casing and JSON quoting are computed and not assumed.             *)
(* A nil-able Go value (pointer, error) is a sequence of length 0 (nil)    *)
(* or 1 (the value).                                                       *)
(***************************************************************************)
EXTENDS Naturals, Sequences, FiniteSets, TLC

VARIABLES
    mode,             \* "setup", "serve" (after router.Serve) or "handle" (after Handle)
    routes,           \* router.routes: route key -> Route
    notFoundHandler,  \* router.notFoundHandler
    handleFuncs,      \* the h... captured by the closure of Handle
    lastAdd,          \* history: <<normalized method, normalized path>> -> handlers of the latest Add
    overwrote,        \* history: some Add replaced a registration by other handlers
    invoked,          \* the closure registered with apex.HandleFunc has run at least once
    event,            \* the event of the latest invocation
    ran,              \* the latest invocation reached execHandlerFuncs
    chain,            \* the h... the latest invocation passed to execHandlerFuncs
    trace,            \* the handler calls of the latest invocation, in order, with what each returned
    hctx,             \* the Context of the latest invocation when it returned
    out,              \* what the latest invocation returned: <<>> or <<[value, err]>>
    earlier,          \* history: an invocation before the latest set a response or got a handler's error
    call,             \* a call of a function of the package on its own: its name and arguments
    result            \* what that call returned: <<>> or <<value>>

vars == <<mode, routes, notFoundHandler, handleFuncs, lastAdd, overwrote,
          invoked, event, ran, chain, trace, hctx, out, earlier, call, result>>

(***************************************************************************)
(* Bounds and input sets                                                   *)
(***************************************************************************)
MaxHandlers == 3        \* longest handler sequence given to Handle
MaxRouteHandlers == 1   \* longest handler sequence given to Add

Nil == <<>>

\* strings
sGET == <<"G", "E", "T">>
sGetSp == <<" ", "g", "e", "t", " ">>
sGetLower == <<"g", "e", "t">>
sPut == <<"p", "u", "t">>
sPutSp == <<" ", "P", "U", "T">>
sHead == <<"h", "e", "a", "d">>
sPost == <<"p", "o", "s", "t">>
sPOST == <<"P", "O", "S", "T">>
sPostMixed == <<"P", "o", "s", "t">>
sDelete == <<"d", "e", "l", "e", "t", "e">>
sDELETE == <<"D", "E", "L", "E", "T", "E">>
sItemsSp == <<" ", "/", "I", "t", "e", "m", "s", " ">>
sItems == <<"/", "i", "t", "e", "m", "s">>
sItemsX == <<"/", "i", "t", "e", "m", "s", "/", "x">>
sOk == <<"o", "k">>
sMissing == <<"m", "i", "s", "s", "i", "n", "g">>
sBoom == <<"b", "o", "o", "m">>
sSecret == <<"s", "e", "c", "r", "e", "t">>
sEmpty == <<>>

AddMethods == {sGET, sGetSp, sPut}
AddPaths == {sItemsSp}
ReqBodies == {sBoom, sSecret}

(***************************************************************************)
(* net/http status codes and texts used by the package                     *)
(***************************************************************************)
StatusNoContent == 204
StatusNotFound == 404
StatusInternalServerError == 500

StatusText(code) ==
    CASE code = 500 -> <<"I", "n", "t", "e", "r", "n", "a", "l", " ",
                         "S", "e", "r", "v", "e", "r", " ",
                         "E", "r", "r", "o", "r">>
      [] code = 404 -> <<"N", "o", "t", " ", "F", "o", "u", "n", "d">>
      [] OTHER -> <<>>

(***************************************************************************)
(* strings.TrimSpace, strings.ToLower, fmt.Sprintf("%s:%s")                *)
(***************************************************************************)
UpperLetters == <<"A", "B", "C", "D", "E", "F", "G", "H", "I", "J", "K", "L", "M",
                  "N", "O", "P", "Q", "R", "S", "T", "U", "V", "W", "X", "Y", "Z">>
LowerLetters == <<"a", "b", "c", "d", "e", "f", "g", "h", "i", "j", "k", "l", "m",
                  "n", "o", "p", "q", "r", "s", "t", "u", "v", "w", "x", "y", "z">>

\* unicode.ToLower on the ASCII letters; every other character is left alone
LowerOf == [c \in {UpperLetters[i] : i \in DOMAIN UpperLetters} |->
               LowerLetters[CHOOSE i \in DOMAIN UpperLetters : UpperLetters[i] = c]]

LowerChar(c) == IF c \in DOMAIN LowerOf THEN LowerOf[c] ELSE c

ToLower(s) == [i \in 1..Len(s) |-> LowerChar(s[i])]

IsSpace(c) == c \in {" ", "\t", "\n", "\r"}

RECURSIVE TrimLeft(_)
TrimLeft(s) == IF s # <<>> /\ IsSpace(Head(s)) THEN TrimLeft(Tail(s)) ELSE s

RECURSIVE TrimRight(_)
TrimRight(s) ==
    IF s # <<>> /\ IsSpace(s[Len(s)]) THEN TrimRight(SubSeq(s, 1, Len(s) - 1)) ELSE s

TrimSpace(s) == TrimRight(TrimLeft(s))

\* (routeKeyNoFold: routeKey with the fault of not lower-casing)
routeKeyNoFold(method, path) == TrimSpace(method) \o <<":">> \o TrimSpace(path)

routeKey(method, path) == ToLower(TrimSpace(method) \o <<":">> \o TrimSpace(path))

(***************************************************************************)
(* response, EmptyHeaders, HTTPError, errors                               *)
(***************************************************************************)
\* a Go map value: nil or present, with its entries
NilHeaders == [isNil |-> TRUE, kv |-> <<>>]
EmptyHeaders == [isNil |-> FALSE, kv |-> <<>>]

response(statusCode, body, headers) ==
    [StatusCode |-> statusCode, Body |-> body, Headers |-> headers]

NewHTTPError(code, message) ==
    <<[kind |-> "HTTPError", Code |-> code,
       Message |-> IF message # <<>> THEN message ELSE StatusText(code)]>>

\* errors.New / fmt.Errorf: any error that is not an *HTTPError
NewError(msg) == <<[kind |-> "error", msg |-> msg]>>

IsHTTPError(err) == err # Nil /\ err[1].kind = "HTTPError"

(***************************************************************************)
(* encoding/json.Marshal of the bodies handlers pass to Context.status     *)
(***************************************************************************)
StringBody(s) == [t |-> "string", s |-> s]
ChanBody == [t |-> "chan"]

EscapeChar(c) ==
    CASE c = "\"" -> <<"\\", "\"">>
      [] c = "\\" -> <<"\\", "\\">>
      [] c = "<" -> <<"\\", "u", "0", "0", "3", "c">>
      [] c = ">" -> <<"\\", "u", "0", "0", "3", "e">>
      [] c = "&" -> <<"\\", "u", "0", "0", "2", "6">>
      [] OTHER -> <<c>>

RECURSIVE Escape(_)
Escape(s) == IF s = <<>> THEN <<>> ELSE EscapeChar(Head(s)) \o Escape(Tail(s))

Marshal(body) ==
    IF body.t = "string"
    THEN [b |-> <<"\"">> \o Escape(body.s) \o <<"\"">>, err |-> Nil]
    ELSE [b |-> <<>>, err |-> NewError(<<"u", "n", "s", "u", "p", "p", "o", "r", "t", "e", "d">>)]

(***************************************************************************)
(* Request and Context                                                     *)
(***************************************************************************)
RequestAt(method, path, resource, body) ==
    [HTTPMethod |-> method, Path |-> path, Resource |-> resource, Body |-> body]

\* a request whose path is its resource template
Request(method, resource, body) == RequestAt(method, resource, resource, body)

\* &Context{Request: req}: the response pointer starts nil
\* (NewContextStale: NewContext with the fault of keeping the response of the
\* Context of the invocation before)
NewContextStale(req) ==
    [Request |-> req, response |-> IF hctx # Nil THEN hctx[1].response ELSE Nil]

NewContext(req) == [Request |-> req, response |-> Nil]

\* a Context method returns the Context as it leaves it and its error
\* (statusNilHeaders: status with the fault of dropping its headers argument)
statusNilHeaders(ctx, st, body, headers) ==
    LET m == Marshal(body)
    IN  IF m.err # Nil
        THEN [ctx |-> ctx, err |-> NewError(m.err[1].msg)]
        ELSE [ctx |-> [ctx EXCEPT !.response = <<response(st, m.b, NilHeaders)>>],
              err |-> Nil]

\* (statusSetsOnError: status with the fault of setting a response with an empty body
\* before it returns the encoding error)
statusSetsOnError(ctx, st, body, headers) ==
    LET m == Marshal(body)
    IN  IF m.err # Nil
        THEN [ctx |-> [ctx EXCEPT !.response = <<response(st, m.b, headers)>>],
              err |-> NewError(m.err[1].msg)]
        ELSE [ctx |-> [ctx EXCEPT !.response = <<response(st, m.b, headers)>>],
              err |-> Nil]

status(ctx, st, body, headers) ==
    LET m == Marshal(body)
    IN  IF m.err # Nil
        THEN [ctx |-> ctx, err |-> NewError(m.err[1].msg)]
        ELSE [ctx |-> [ctx EXCEPT !.response = <<response(st, m.b, headers)>>],
              err |-> Nil]

NoContent(ctx, st) == status(ctx, st, StringBody(sEmpty), EmptyHeaders)

String(ctx, st, body) == status(ctx, st, StringBody(body), EmptyHeaders)

JSON(ctx, st, body) == status(ctx, st, body, EmptyHeaders)

Continue(ctx) == [ctx |-> ctx, err |-> Nil]

(***************************************************************************)
(* Handlers.  notFoundHandler is the package's default fallback; the       *)
(* others are handlers of the calling program, one of each kind the        *)
(* executor distinguishes.                                                 *)
(***************************************************************************)
\* func(c) error { return c.Continue() }
hContinue(ctx) == Continue(ctx)

\* func(c) error { return c.String(200, "ok") }
hOK(ctx) == String(ctx, 200, sOk)

\* func(c) error { return c.NoContent(201) }
hCreated(ctx) == NoContent(ctx, 201)

\* func(c) error { c.String(200, "ok"); return NewHTTPError(404, "missing") }
hMissing(ctx) == [ctx |-> String(ctx, 200, sOk).ctx, err |-> NewHTTPError(404, sMissing)]

\* func(c) error { c.NoContent(201); return errors.New(c.Request.Body) }
hFail(ctx) == [ctx |-> NoContent(ctx, 201).ctx, err |-> NewError(ctx.Request.Body)]

\* func(c) error { _ = c.JSON(200, make(chan int)); return nil }
hBadJSON(ctx) == [ctx |-> JSON(ctx, 200, ChanBody).ctx, err |-> Nil]

\* json.Marshal(c) encodes the Request, whose fields are strings and maps of
\* strings: it cannot fail, so the DumpContext branch is never taken.
defaultNotFound(ctx) == NoContent(ctx, StatusNotFound)

UserHandlers == {"hContinue", "hOK", "hCreated", "hMissing", "hFail"}
NotFoundChoices == {"hOK", "hMissing", "hFail"}
HandleHandlers == UserHandlers \cup {"hBadJSON"}

\* HandlerFunc.Handle: h(ctx)
Handle(hf, ctx) ==
    CASE hf = "hContinue" -> hContinue(ctx)
      [] hf = "hOK" -> hOK(ctx)
      [] hf = "hCreated" -> hCreated(ctx)
      [] hf = "hMissing" -> hMissing(ctx)
      [] hf = "hFail" -> hFail(ctx)
      [] hf = "hBadJSON" -> hBadJSON(ctx)
      [] hf = "notFoundHandler" -> defaultNotFound(ctx)

RECURSIVE SeqsUpTo(_, _)
SeqsUpTo(S, n) ==
    IF n = 0 THEN {<<>>}
    ELSE LET shorter == SeqsUpTo(S, n - 1)
         IN  shorter \cup {Append(q, x) : q \in shorter, x \in S}

HandlerSeqs == SeqsUpTo(HandleHandlers, MaxHandlers)
\* the handlers the routes are registered with
RouteHandlers == {"hContinue", "hOK", "hFail"}
RouteHandlerSeqs == SeqsUpTo(RouteHandlers, MaxRouteHandlers)

(***************************************************************************)
(* execHandlerFuncs                                                        *)
(***************************************************************************)
InternalServerError ==
    response(StatusInternalServerError, StatusText(StatusInternalServerError), EmptyHeaders)

NoContentDefault == response(StatusNoContent, sEmpty, EmptyHeaders)

\* the response returned for a handler's non-nil error
\* (errorResponseStatusText and errorResponseLeak: errorResponse with the fault of
\* taking the body from the status text, and from the error's message)
errorResponseStatusText(err) ==
    IF IsHTTPError(err)
    THEN response(err[1].Code, StatusText(err[1].Code), EmptyHeaders)
    ELSE InternalServerError

errorResponseLeak(err) ==
    IF IsHTTPError(err)
    THEN response(err[1].Code, err[1].Message, EmptyHeaders)
    ELSE response(StatusInternalServerError, err[1].msg, EmptyHeaders)

errorResponse(err) ==
    IF IsHTTPError(err)
    THEN response(err[1].Code, err[1].Message, EmptyHeaders)
    ELSE InternalServerError

\* if err != nil { ... return &response{...}, nil }
\* (failedPropagate: failed with the fault of returning the handler's error)
failedPropagate(err, ctx, tr) ==
    IF IsHTTPError(err)
    THEN [value |-> <<errorResponse(err)>>, err |-> Nil, ctx |-> ctx, trace |-> tr]
    ELSE [value |-> Nil, err |-> err, ctx |-> ctx, trace |-> tr]

failed(err, ctx, tr) ==
    [value |-> <<errorResponse(err)>>, err |-> Nil, ctx |-> ctx, trace |-> tr]

\* if hctx.response != nil { resp = hctx.response }
\* (adoptFirst: adopt with the fault of keeping the first response set)
adoptFirst(resp, ctx) ==
    IF ctx.response # Nil /\ resp = NoContentDefault THEN ctx.response[1] ELSE resp

adopt(resp, ctx) == IF ctx.response # Nil THEN ctx.response[1] ELSE resp

\* the loop from handler i on; resp is the candidate response so far
\* (execLoopStopOnResponse: execLoop with the fault of ending the chain once a
\* response is set)
RECURSIVE execLoopStopOnResponse(_, _, _, _, _)
execLoopStopOnResponse(resp, ctx, h, i, tr) ==
    IF i > Len(h) \/ ctx.response # Nil
    THEN [value |-> <<resp>>, err |-> Nil, ctx |-> ctx, trace |-> tr]
    ELSE LET r == Handle(h[i], ctx)
             tr2 == Append(tr, [hf |-> h[i], err |-> r.err])
         IN  IF r.err # Nil
             THEN failed(r.err, r.ctx, tr2)
             ELSE execLoopStopOnResponse(adopt(resp, r.ctx), r.ctx, h, i + 1, tr2)

RECURSIVE execLoop(_, _, _, _, _)
execLoop(resp, ctx, h, i, tr) ==
    IF i > Len(h)
    THEN [value |-> <<resp>>, err |-> Nil, ctx |-> ctx, trace |-> tr]
    ELSE LET r == Handle(h[i], ctx)
             tr2 == Append(tr, [hf |-> h[i], err |-> r.err])
         IN  IF r.err # Nil
             THEN failed(r.err, r.ctx, tr2)
             ELSE execLoop(adopt(resp, r.ctx), r.ctx, h, i + 1, tr2)

execHandlerFuncs(resp, ctx, h) == execLoop(resp, ctx, h, 1, <<>>)

(***************************************************************************)
(* json.Unmarshal(event, req)                                              *)
(***************************************************************************)
MalformedEvent == [json |-> "malformed"]
ObjectEvent(req) == [json |-> "object", req |-> req]

\* the requests of the events: "get", " PUT" and "head" on "/items", and "get" on
\* the path "/items" of the resource "/items/x"
Requests ==
    {Request(sGetLower, sItems, sBoom), Request(sGetLower, sItems, sSecret),
     Request(sPutSp, sItems, sBoom), Request(sHead, sItems, sSecret),
     RequestAt(sGetLower, sItems, sItemsX, sBoom)}

Events == {MalformedEvent} \cup {ObjectEvent(rq) : rq \in Requests}

\* (UnmarshalIgnoreError: Unmarshal with the fault of dropping its error)
UnmarshalIgnoreError(ev) ==
    IF ev.json = "object"
    THEN [req |-> ev.req, err |-> Nil]
    ELSE [req |-> Request(sEmpty, sEmpty, sEmpty), err |-> Nil]

Unmarshal(ev) ==
    IF ev.json = "object"
    THEN [req |-> ev.req, err |-> Nil]
    ELSE [req |-> Request(sEmpty, sEmpty, sEmpty), err |-> NewError(<<"s", "y", "n", "t", "a", "x">>)]

(***************************************************************************)
(* The router                                                              *)
(***************************************************************************)
Route(method, resourcePath, h) ==
    [HTTPMethod |-> method, ResourcePath |-> resourcePath, HandlerFuncs |-> h]

\* m[k] = v of a Go map
\* (MapPutAlone: MapPut with the fault of dropping every other key)
MapPutAlone(m, k, v) == [x \in {k} |-> v]

MapPut(m, k, v) == [x \in (DOMAIN m) \cup {k} |-> IF x = k THEN v ELSE m[x]]

\* r.routes[routeKey(method, resourcePath)] = &Route{...}
\* (AddRouteKeepFirst: AddRoute with the fault of keeping an existing registration)
AddRouteKeepFirst(rts, method, resourcePath, h) ==
    IF routeKey(method, resourcePath) \in DOMAIN rts THEN rts
    ELSE MapPut(rts, routeKey(method, resourcePath), Route(method, resourcePath, h))

AddRoute(rts, method, resourcePath, h) ==
    MapPut(rts, routeKey(method, resourcePath), Route(method, resourcePath, h))

\* return r.Add("get", resourcePath, h...), and so on: the registry of the router
\* each returns
\* (DELETERouteAsGet: DELETERoute with the fault of registering under "get")
GETRoute(rts, resourcePath, h) == AddRoute(rts, sGetLower, resourcePath, h)
PUTRoute(rts, resourcePath, h) == AddRoute(rts, sPut, resourcePath, h)
POSTRoute(rts, resourcePath, h) == AddRoute(rts, sPost, resourcePath, h)
DELETERouteAsGet(rts, resourcePath, h) == AddRoute(rts, sGetLower, resourcePath, h)

DELETERoute(rts, resourcePath, h) == AddRoute(rts, sDelete, resourcePath, h)
HEADRoute(rts, resourcePath, h) == AddRoute(rts, sHead, resourcePath, h)

\* rt, ok := r.routes[routeKey(...)]; the handlers Serve hands to execHandlerFuncs
\* (selectHandlersNoFallback and selectHandlersNoLenCheck: selectHandlers with the
\* fault of running nothing for a missing key, and of running an empty route)
selectHandlersNoFallback(rts, nf, req) ==
    LET k == routeKey(req.HTTPMethod, req.Resource)
    IN  IF k \notin DOMAIN rts THEN <<>> ELSE
        IF Len(rts[k].HandlerFuncs) = 0 THEN <<nf>> ELSE rts[k].HandlerFuncs

selectHandlersNoLenCheck(rts, nf, req) ==
    LET k == routeKey(req.HTTPMethod, req.Resource)
    IN  IF k \notin DOMAIN rts THEN <<nf>> ELSE rts[k].HandlerFuncs

\* (selectHandlersByPath: selectHandlers with the fault of keying on req.Path)
selectHandlersByPath(rts, nf, req) ==
    LET k == routeKey(req.HTTPMethod, req.Path)
    IN  IF k \notin DOMAIN rts \/ Len(rts[k].HandlerFuncs) = 0
        THEN <<nf>>
        ELSE rts[k].HandlerFuncs

selectHandlers(rts, nf, req) ==
    LET k == routeKey(req.HTTPMethod, req.Resource)
    IN  IF k \notin DOMAIN rts \/ Len(rts[k].HandlerFuncs) = 0
        THEN <<nf>>
        ELSE rts[k].HandlerFuncs

\* what one invocation does and returns
parseFailure ==
    [ran |-> FALSE, chain |-> <<>>, trace |-> <<>>, hctx |-> Nil,
     out |-> <<[value |-> <<InternalServerError>>, err |-> Nil]>>]

executed(ctx, h) ==
    LET r == execHandlerFuncs(NoContentDefault, ctx, h)
    IN  [ran |-> TRUE, chain |-> h, trace |-> r.trace, hctx |-> <<r.ctx>>,
         out |-> <<[value |-> r.value, err |-> r.err]>>]

\* the closure router.Serve registers with apex.HandleFunc
serveEvent(rts, nf, ev) ==
    LET u == Unmarshal(ev)
    IN  IF u.err # Nil
        THEN parseFailure
        ELSE executed(NewContext(u.req), selectHandlers(rts, nf, u.req))

\* the closure Handle registers with apex.HandleFunc
handleEvent(h, ev) ==
    LET u == Unmarshal(ev)
    IN  IF u.err # Nil
        THEN parseFailure
        ELSE executed(NewContext(u.req), h)

\* the history kept for the claims: the latest Add per normalized method and path
Norm(s) == ToLower(TrimSpace(s))
NormPair(method, path) == <<Norm(method), Norm(path)>>

(***************************************************************************)
(* The state machine                                                       *)
(***************************************************************************)
\* no call of a function on its own is under way
NoCall == [op |-> "none"]

Init ==
    /\ mode = "start"
    /\ routes = <<>>
    /\ notFoundHandler = "notFoundHandler"
    /\ handleFuncs = <<>>
    /\ lastAdd = <<>>
    /\ overwrote = FALSE
    /\ invoked = FALSE
    /\ event = MalformedEvent
    /\ ran = FALSE
    /\ chain = <<>>
    /\ trace = <<>>
    /\ hctx = Nil
    /\ out = Nil
    /\ earlier = FALSE
    /\ call = NoCall
    /\ result = Nil

NewRouter ==
    /\ mode = "start"
    /\ mode' = "setup"
    /\ routes' = <<>>
    /\ notFoundHandler' = "notFoundHandler"
    /\ UNCHANGED <<handleFuncs, lastAdd, overwrote, invoked, event, ran, chain, trace, hctx, out, earlier,
                   call, result>>

Add(method, resourcePath, h) ==
    /\ mode = "setup"
    /\ routes' = AddRoute(routes, method, resourcePath, h)
    /\ lastAdd' = MapPut(lastAdd, NormPair(method, resourcePath), h)
    /\ overwrote' = (\/ overwrote
                     \/ /\ NormPair(method, resourcePath) \in DOMAIN lastAdd
                        /\ lastAdd[NormPair(method, resourcePath)] # h)
    /\ UNCHANGED <<mode, notFoundHandler, handleFuncs, invoked, event, ran, chain,
                   trace, hctx, out, earlier,
                   call, result>>

SetNotFoundHandler(h) ==
    /\ mode = "setup"
    /\ notFoundHandler' = h
    /\ UNCHANGED <<mode, routes, handleFuncs, lastAdd, overwrote, invoked, event, ran, chain,
                   trace, hctx, out, earlier,
                   call, result>>

Serve ==
    /\ mode = "setup"
    /\ mode' = "serve"
    /\ UNCHANGED <<routes, notFoundHandler, handleFuncs, lastAdd, overwrote, invoked, event, ran,
                   chain, trace, hctx, out, earlier,
                   call, result>>

HandleFuncs(h) ==
    /\ mode = "start"
    /\ mode' = "handle"
    /\ handleFuncs' = h
    /\ UNCHANGED <<routes, notFoundHandler, lastAdd, overwrote, invoked, event, ran, chain,
                   trace, hctx, out, earlier,
                   call, result>>

Returned(ev, r) ==
    /\ invoked' = TRUE
    /\ event' = ev
    /\ ran' = r.ran
    /\ chain' = r.chain
    /\ trace' = r.trace
    /\ hctx' = r.hctx
    /\ out' = r.out
    /\ earlier' = (\/ earlier
                   \/ /\ invoked /\ ran
                      /\ \/ hctx[1].response # Nil
                         \/ \E i \in DOMAIN trace : trace[i].err # Nil)

ServeInvoke(ev) ==
    /\ mode = "serve"
    /\ Returned(ev, serveEvent(routes, notFoundHandler, ev))
    /\ UNCHANGED <<mode, routes, notFoundHandler, handleFuncs, lastAdd, overwrote, call, result>>

HandleInvoke(ev) ==
    /\ mode = "handle"
    /\ Returned(ev, handleEvent(handleFuncs, ev))
    /\ UNCHANGED <<mode, routes, notFoundHandler, handleFuncs, lastAdd, overwrote, call, result>>

Next ==
    \/ NewRouter
    \/ \E m \in AddMethods, p \in AddPaths, h \in RouteHandlerSeqs : Add(m, p, h)
    \/ \E h \in NotFoundChoices : SetNotFoundHandler(h)
    \/ Serve
    \/ \E h \in HandlerSeqs : HandleFuncs(h)
    \/ \E ev \in Events : ServeInvoke(ev)
    \/ \E ev \in Events : HandleInvoke(ev)

Spec == Init /\ [][Next]_vars

(***************************************************************************)
(* Bind                                                                    *)
(***************************************************************************)
sName == <<"n", "a", "m", "e">>
sAge == <<"a", "g", "e">>
sNameField == <<"N", "a", "m", "e">>
sAgeField == <<"A", "g", "e">>
sB == <<"b">>
sQ == <<"q">>
s7 == <<"7">>
s9 == <<"9">>

UpperOf == [c \in {LowerLetters[i] : i \in DOMAIN LowerLetters} |->
               UpperLetters[CHOOSE i \in DOMAIN LowerLetters : LowerLetters[i] = c]]
UpperChar(c) == IF c \in DOMAIN UpperOf THEN UpperOf[c] ELSE c

\* a quoted string starting at s[i], without escapes: its value and the position
\* after it
ReadString(s, i) ==
    IF i > Len(s) \/ s[i] # "\""
    THEN [ok |-> FALSE, val |-> <<>>, next |-> i]
    ELSE LET ends == {j \in (i + 1)..Len(s) : s[j] = "\""}
         IN  IF ends = {}
             THEN [ok |-> FALSE, val |-> <<>>, next |-> i]
             ELSE LET j == CHOOSE e \in ends : \A e2 \in ends : e <= e2
                  IN  [ok |-> TRUE, val |-> SubSeq(s, i + 1, j - 1), next |-> j + 1]

\* the members "key":"value" of a JSON object from s[i] to the closing brace that
\* ends s; a repeated key keeps its last value
RECURSIVE ParseMembers(_, _, _)
ParseMembers(s, i, acc) ==
    LET k == ReadString(s, i)
        v == ReadString(s, k.next + 1)
        fail == [err |-> TRUE, obj |-> <<>>]
    IN  IF ~k.ok \/ k.next > Len(s) \/ s[k.next] # ":" THEN fail
        ELSE IF ~v.ok \/ v.next > Len(s) THEN fail
        ELSE IF s[v.next] = "}"
             THEN IF v.next = Len(s)
                  THEN [err |-> FALSE, obj |-> MapPut(acc, k.val, v.val)]
                  ELSE fail
        ELSE IF s[v.next] = ","
             THEN ParseMembers(s, v.next + 1, MapPut(acc, k.val, v.val))
             ELSE fail

\* the JSON object of string members the text s holds, or an error: the empty text
\* and every text that is not an object are errors for a struct target
ParseObject(s) ==
    IF Len(s) < 2 \/ s[1] # "{" THEN [err |-> TRUE, obj |-> <<>>]
    ELSE IF s[2] = "}"
         THEN [err |-> Len(s) # 2, obj |-> <<>>]
         ELSE ParseMembers(s, 2, <<>>)

\* json.Unmarshal([]byte(body), m) for m a pointer to a struct of string fields:
\* a member sets the field whose name matches its key whatever the letter case,
\* the other fields keep their values
UnmarshalBody(body, m) ==
    LET p == ParseObject(body)
    IN  IF p.err
        THEN [m |-> m, err |-> NewError(<<"s", "y", "n", "t", "a", "x">>)]
        ELSE [m |-> [f \in DOMAIN m |->
                        IF \E k \in DOMAIN p.obj : ToLower(k) = ToLower(f)
                        THEN p.obj[CHOOSE k \in DOMAIN p.obj : ToLower(k) = ToLower(f)]
                        ELSE m[f]],
              err |-> Nil]

\* the field name mergo gives a map key: its initial in upper case
changeInitialCase(key) ==
    IF key = <<>> THEN key ELSE <<UpperChar(key[1])>> \o Tail(key)

\* mergo.Map(m, src) for a struct m and a map src, without the override option:
\* a key sets the field it names only when the field holds the zero value
mergoMap(m, src) ==
    [f \in DOMAIN m |->
        IF m[f] = <<>> /\ \E k \in DOMAIN src.kv : changeInitialCase(k) = f
        THEN src.kv[CHOOSE k \in DOMAIN src.kv : changeInitialCase(k) = f]
        ELSE m[f]]

\* func (ctx *Context) Bind(m interface{}) error: the target and the error
Bind(ctx, m) ==
    LET u == UnmarshalBody(ctx.Request.Body, m)
    IN  IF u.err # Nil
        THEN [m |-> u.m, err |-> u.err]
        ELSE [m |-> mergoMap(u.m, ctx.Request.QueryStringParameters), err |-> Nil]

\* the text of the JSON object with the members q
RECURSIVE MembersText(_)
MembersText(q) ==
    IF q = <<>> THEN <<>>
    ELSE Marshal(StringBody(q[1][1])).b \o <<":">> \o Marshal(StringBody(q[1][2])).b
             \o (IF Len(q) = 1 THEN <<>> ELSE <<",">> \o MembersText(Tail(q)))
ObjectText(q) == <<"{">> \o MembersText(q) \o <<"}">>

\* a Go map[string]string
NilMap == [isNil |-> TRUE, kv |-> <<>>]
MapOf(kv) == [isNil |-> FALSE, kv |-> kv]

BindBodies ==
    {sEmpty, sBoom, ObjectText(<<>>), ObjectText(<<<<sName, sB>>>>),
     ObjectText(<<<<sAge, s7>>>>), ObjectText(<<<<sName, sB>>, <<sAge, s7>>>>),
     ObjectText(<<<<sName, sEmpty>>>>), ObjectText(<<<<sNameField, sB>>>>)}
BindQueries ==
    {NilMap, MapOf(sName :> sQ), MapOf(sAge :> s9), MapOf((sName :> sQ) @@ (sAge :> s9)),
     MapOf((sName :> sEmpty) @@ (sAge :> s9)), MapOf(sName :> sEmpty), MapOf(<<>>)}
\* var t struct{ Name, Age string }
BindTargets == {(sNameField :> sEmpty) @@ (sAgeField :> sEmpty)}

BindRequest(body, query) ==
    [HTTPMethod |-> sGetLower, Path |-> sItems, Resource |-> sItems, Body |-> body,
     QueryStringParameters |-> query]

BindCalls ==
    {[op |-> "Bind", req |-> BindRequest(b, q), m |-> t] :
         b \in BindBodies, q \in BindQueries, t \in BindTargets}

\* a handler about to call c.Bind(&t)
InitBind ==
    /\ mode = "handle"
    /\ routes = <<>>
    /\ notFoundHandler = "notFoundHandler"
    /\ handleFuncs = <<>>
    /\ lastAdd = <<>>
    /\ overwrote = FALSE
    /\ invoked = FALSE
    /\ event = MalformedEvent
    /\ ran = FALSE
    /\ chain = <<>>
    /\ trace = <<>>
    /\ hctx = Nil
    /\ out = Nil
    /\ earlier = FALSE
    /\ call \in BindCalls
    /\ result = Nil

BindCall ==
    /\ call.op = "Bind"
    /\ result = Nil
    /\ result' = <<Bind(NewContext(call.req), call.m)>>
    /\ UNCHANGED <<mode, routes, notFoundHandler, handleFuncs, lastAdd, overwrote, invoked,
                   event, ran, chain, trace, hctx, out, earlier, call>>

NextBind == BindCall

SpecBind == InitBind /\ [][NextBind]_vars

(***************************************************************************)
(* The router set up with methods and paths that hold ':'                  *)
(***************************************************************************)
KeyMethods == {<<"a">>, <<"a", ":", "b">>, <<" ", "A", " ">>}
KeyPaths == {<<"b", ":", "c">>, <<"c">>, <<" ", "C", " ">>}
KeyHandlerSeqs == {<<"hOK">>, <<"hCreated">>}

NextKeys ==
    \/ NewRouter
    \/ \E m \in KeyMethods, p \in KeyPaths, h \in KeyHandlerSeqs : Add(m, p, h)

SpecKeys == Init /\ [][NextKeys]_vars

(***************************************************************************)
(* The router set up with Add and the per-method registrations             *)
(***************************************************************************)
SugarAddMethods == {sGET, sPostMixed}
SugarHandlerSeqs == {<<"hOK">>, <<"hFail">>}
SugarNotFoundChoices == {"hMissing"}
SugarRequests ==
    {Request(sGET, sItems, sBoom), Request(sPutSp, sItems, sBoom),
     Request(sPOST, sItems, sBoom), Request(sDELETE, sItems, sBoom),
     Request(sHead, sItems, sBoom)}
SugarEvents == {MalformedEvent} \cup {ObjectEvent(rq) : rq \in SugarRequests}

\* the history of a registration of h under method and resourcePath, and what a
\* registration leaves alone
Registered(method, resourcePath, h) ==
    /\ lastAdd' = MapPut(lastAdd, NormPair(method, resourcePath), h)
    /\ overwrote' = (\/ overwrote
                     \/ /\ NormPair(method, resourcePath) \in DOMAIN lastAdd
                        /\ lastAdd[NormPair(method, resourcePath)] # h)
    /\ UNCHANGED <<mode, notFoundHandler, handleFuncs, invoked, event, ran, chain,
                   trace, hctx, out, earlier, call, result>>

GET(resourcePath, h) ==
    /\ mode = "setup"
    /\ routes' = GETRoute(routes, resourcePath, h)
    /\ Registered(sGetLower, resourcePath, h)

PUT(resourcePath, h) ==
    /\ mode = "setup"
    /\ routes' = PUTRoute(routes, resourcePath, h)
    /\ Registered(sPut, resourcePath, h)

POST(resourcePath, h) ==
    /\ mode = "setup"
    /\ routes' = POSTRoute(routes, resourcePath, h)
    /\ Registered(sPost, resourcePath, h)

DELETE(resourcePath, h) ==
    /\ mode = "setup"
    /\ routes' = DELETERoute(routes, resourcePath, h)
    /\ Registered(sDelete, resourcePath, h)

HEAD(resourcePath, h) ==
    /\ mode = "setup"
    /\ routes' = HEADRoute(routes, resourcePath, h)
    /\ Registered(sHead, resourcePath, h)

NextSugar ==
    \/ NewRouter
    \/ \E m \in SugarAddMethods, p \in AddPaths, h \in SugarHandlerSeqs : Add(m, p, h)
    \/ \E p \in AddPaths, h \in SugarHandlerSeqs : GET(p, h)
    \/ \E p \in AddPaths, h \in SugarHandlerSeqs : PUT(p, h)
    \/ \E p \in AddPaths, h \in SugarHandlerSeqs : POST(p, h)
    \/ \E p \in AddPaths, h \in SugarHandlerSeqs : DELETE(p, h)
    \/ \E p \in AddPaths, h \in SugarHandlerSeqs : HEAD(p, h)
    \/ \E h \in SugarNotFoundChoices : SetNotFoundHandler(h)
    \/ Serve
    \/ \E ev \in SugarEvents : ServeInvoke(ev)

SpecSugar == Init /\ [][NextSugar]_vars

(***************************************************************************)
(* Properties                                                              *)
(***************************************************************************)
returned == out[1].value[1]
req == event.req

Last(q) == q[Len(q)]
NoError(tr) == \A i \in DOMAIN tr : tr[i].err = Nil

\* the response handler hf sets when it runs on a fresh Context: Nil or <<response>>
SetBy(hf, rq) == Handle(hf, NewContext(rq)).ctx.response

\* the response set last among the first n handlers of h, the default if none set one
RECURSIVE LastSetBy(_, _, _)
LastSetBy(h, rq, n) ==
    IF n = 0 THEN NoContentDefault
    ELSE IF SetBy(h[n], rq) # Nil THEN SetBy(h[n], rq)[1]
         ELSE LastSetBy(h, rq, n - 1)

sInternalServerError ==
    <<"I", "n", "t", "e", "r", "n", "a", "l", " ", "S", "e", "r", "v", "e", "r", " ",
      "E", "r", "r", "o", "r">>

\* C1: when no handler of the chain returns an error, the invocation returns the
\* response set by the last status-setting call of the chain, whichever handler made
\* it, and the 204 default (empty body, empty headers) when no handler set one.
C1_LastResponseWins ==
    (ran /\ NoError(trace)) =>
        /\ out = <<[value |-> <<LastSetBy(chain, req, Len(chain))>>, err |-> Nil]>>
        /\ (\A i \in DOMAIN chain : SetBy(chain[i], req) = Nil) =>
               returned = [StatusCode |-> 204, Body |-> <<>>,
                           Headers |-> [isNil |-> FALSE, kv |-> <<>>]]

\* handler 1 sets a response, handler 2 sets a different one, handler 3 sets none
C1_Witness ==
    /\ ran /\ NoError(trace) /\ Len(chain) = 3
    /\ SetBy(chain[1], req) # Nil /\ SetBy(chain[2], req) # Nil
    /\ SetBy(chain[1], req) # SetBy(chain[2], req)
    /\ SetBy(chain[3], req) = Nil
    /\ returned = SetBy(chain[2], req)[1]

\* C2: handlers run in registration order, each at most once, and handler i runs
\* if and only if every handler before it ran and returned no error; a handler that
\* sets a response without error does not stop the chain.
C2_OrderAndShortCircuit ==
    ran =>
        /\ Len(trace) <= Len(chain)
        /\ \A i \in DOMAIN trace : trace[i].hf = chain[i]
        /\ \A i \in DOMAIN chain :
               (i \in DOMAIN trace) <=>
                   (\A j \in 1..(i - 1) : j \in DOMAIN trace /\ trace[j].err = Nil)

\* the first handler set a response, the second still ran and failed, the third never ran
C2_Witness ==
    /\ ran /\ Len(chain) = 3 /\ Len(trace) = 2
    /\ SetBy(chain[1], req) # Nil /\ trace[1].err = Nil
    /\ trace[2].err # Nil

\* C3: when the first erroring handler returns an HTTPError{code, message}, the
\* response has status code, body message and empty headers, whatever response was
\* set on the Context before.
C3_HTTPErrorResponse ==
    (ran /\ trace # <<>> /\ IsHTTPError(Last(trace).err)) =>
        /\ out[1].err = Nil
        /\ returned = [StatusCode |-> Last(trace).err[1].Code,
                       Body |-> Last(trace).err[1].Message,
                       Headers |-> EmptyHeaders]
        /\ Last(trace).hf = "hMissing" =>
               returned.StatusCode = 404 /\ returned.Body = sMissing

\* an earlier handler and the erroring handler both set a response before the HTTPError
C3_Witness ==
    /\ ran /\ Len(trace) >= 2 /\ IsHTTPError(Last(trace).err)
    /\ SetBy(chain[1], req) # Nil
    /\ hctx[1].response # Nil
    /\ returned.StatusCode = 404 /\ returned.Body = sMissing

\* C4: when the first erroring handler returns an error that is not an HTTPError, the
\* response is the fixed 500 "Internal Server Error" response with empty headers, and
\* the same chain run on a request that differs only in what the error's message is
\* made of returns the same response.
C4_InternalErrorOpaque ==
    (ran /\ trace # <<>> /\ Last(trace).err # Nil /\ ~IsHTTPError(Last(trace).err)) =>
        /\ out = <<[value |-> <<[StatusCode |-> 500, Body |-> sInternalServerError,
                                 Headers |-> EmptyHeaders]>>,
                    err |-> Nil]>>
        /\ \A b \in ReqBodies :
               LET other == executed(NewContext([req EXCEPT !.Body = b]), chain)
               IN  /\ Last(other.trace).err = NewError(b)
                   /\ other.out = out

\* the error carries the request's body and a response had been set before it
C4_Witness ==
    /\ ran /\ Len(trace) >= 2
    /\ Last(trace).err = NewError(sSecret)
    /\ hctx[1].response # Nil
    /\ returned.StatusCode = 500

\* the registered routes whose method and path equal the request's once each is
\* trimmed and lower-cased
Matching(rq) ==
    {k \in DOMAIN routes :
        /\ Norm(routes[k].HTTPMethod) = Norm(rq.HTTPMethod)
        /\ Norm(routes[k].ResourcePath) = Norm(rq.Resource)}

dispatched == mode = "serve" /\ invoked /\ ran

\* C5: a request whose HTTPMethod and Resource equal, after trimming and
\* lower-casing, the method and path of a registered route with at least one handler
\* is dispatched to that route's handlers.
C5_LookupNormalized ==
    /\ \A rq \in Requests : \A k \in Matching(rq) :
           routes[k].HandlerFuncs # <<>> =>
               serveEvent(routes, notFoundHandler, ObjectEvent(rq)).chain
                   = routes[k].HandlerFuncs
    /\ dispatched =>
           \A k \in Matching(req) :
               routes[k].HandlerFuncs # <<>> => chain = routes[k].HandlerFuncs

\* registered as "GET" and " /Items ", requested as "get" and "/items"
C5_Witness ==
    /\ dispatched
    /\ req.HTTPMethod = sGetLower /\ req.Resource = sItems
    /\ \E k \in Matching(req) :
           /\ routes[k].HTTPMethod = sGET /\ routes[k].ResourcePath = sItemsSp
           /\ routes[k].HandlerFuncs # <<>>
           /\ chain = routes[k].HandlerFuncs
           /\ trace # <<>> /\ trace[1].hf = routes[k].HandlerFuncs[1]

\* C6 as stated: a dispatch to a registered key runs exactly the handler sequence of
\* the most recent Add for that key.
C6_Original ==
    (dispatched /\ NormPair(req.HTTPMethod, req.Resource) \in DOMAIN lastAdd) =>
        chain = lastAdd[NormPair(req.HTTPMethod, req.Resource)]

\* C6 (amended): the registry holds at most one Route per normalized method and
\* path; a dispatch to a registered key runs the handler sequence of the most recent
\* Add for that key when that sequence is not empty, and the not-found handler alone
\* when it is empty; no other handler runs, so none of an overwritten registration.
C6_LastWriteWins ==
    /\ \A k1, k2 \in DOMAIN routes :
           NormPair(routes[k1].HTTPMethod, routes[k1].ResourcePath)
               = NormPair(routes[k2].HTTPMethod, routes[k2].ResourcePath) => k1 = k2
    /\ Cardinality(DOMAIN routes) = Cardinality(DOMAIN lastAdd)
    /\ (dispatched /\ NormPair(req.HTTPMethod, req.Resource) \in DOMAIN lastAdd) =>
           LET latest == lastAdd[NormPair(req.HTTPMethod, req.Resource)]
           IN  /\ chain = IF latest # <<>> THEN latest ELSE <<notFoundHandler>>
               /\ \A i \in DOMAIN trace : trace[i].hf = chain[i]

\* the only key registered was registered again with other handlers, under another
\* spelling of its method, and a dispatch to it ran the later handlers
C6_Witness ==
    /\ dispatched /\ overwrote /\ Cardinality(DOMAIN routes) = 1
    /\ \E k \in Matching(req) :
           /\ routes[k].HTTPMethod = sGetSp
           /\ routes[k].HandlerFuncs # <<>>
           /\ lastAdd[NormPair(req.HTTPMethod, req.Resource)] = routes[k].HandlerFuncs
           /\ chain = routes[k].HandlerFuncs /\ Len(trace) = Len(chain)

\* C7: a dispatch whose key matches no registered route runs the installed not-found
\* handler once, as a one-handler chain, and no route handler; the response is the
\* internal-error response only if that handler returns a non-HTTPError error.
C7_NotFoundFallback ==
    (dispatched /\ NormPair(req.HTTPMethod, req.Resource) \notin DOMAIN lastAdd) =>
        LET ret == Handle(notFoundHandler, NewContext(req)).err
            set == SetBy(notFoundHandler, req)
        IN  /\ chain = <<notFoundHandler>>
            /\ trace = <<[hf |-> notFoundHandler, err |-> ret]>>
            /\ out[1].err = Nil
            /\ ret = Nil =>
                   returned = IF set # Nil THEN set[1] ELSE NoContentDefault
            /\ IsHTTPError(ret) =>
                   returned = [StatusCode |-> ret[1].Code, Body |-> ret[1].Message,
                               Headers |-> EmptyHeaders]
            /\ returned.StatusCode = 500 => (ret # Nil /\ ~IsHTTPError(ret))
            /\ notFoundHandler = "notFoundHandler" => returned.StatusCode = 404

\* a route is registered, but not the one requested, and a custom fallback ran
C7_Witness ==
    /\ dispatched /\ routes # <<>>
    /\ NormPair(req.HTTPMethod, req.Resource) \notin DOMAIN lastAdd
    /\ notFoundHandler = "hOK"
    /\ trace = <<[hf |-> "hOK", err |-> Nil]>>
    /\ returned.StatusCode = 200

\* a Go map without key k
MapRemove(m, k) == [x \in (DOMAIN m) \ {k} |-> m[x]]

\* C8: with a route of zero handlers registered under a key, every event is handled
\* as it is with that key absent from the registry: same handler calls, same
\* response; a request to that key gets the not-found handler, not the 204 default.
C8_EmptyRouteIsUnregistered ==
    \A k \in DOMAIN routes :
        routes[k].HandlerFuncs = <<>> =>
            /\ \A ev \in Events :
                   serveEvent(routes, notFoundHandler, ev)
                       = serveEvent(MapRemove(routes, k), notFoundHandler, ev)
            /\ (dispatched /\ routeKey(req.HTTPMethod, req.Resource) = k) =>
                   /\ chain = <<notFoundHandler>>
                   /\ out = serveEvent(MapRemove(routes, k), notFoundHandler, event).out
                   /\ trace = serveEvent(MapRemove(routes, k), notFoundHandler, event).trace

\* a request to a key registered with zero handlers got the default 404
C8_Witness ==
    /\ dispatched
    /\ routeKey(req.HTTPMethod, req.Resource) \in DOMAIN routes
    /\ routes[routeKey(req.HTTPMethod, req.Resource)].HandlerFuncs = <<>>
    /\ notFoundHandler = "notFoundHandler"
    /\ returned.StatusCode = 404

\* C9: every invocation returns exactly one response value together with a nil
\* error, also when the event is malformed, no route matches, or Handle was given
\* no handler.
C9_OneResponse ==
    /\ invoked =>
           /\ Len(out) = 1
           /\ out[1].err = Nil
           /\ Len(out[1].value) = 1
           /\ out[1].value[1].StatusCode \in Nat
    /\ ~invoked => out = Nil

\* Handle with the empty handler sequence
C9_Witness ==
    /\ invoked /\ mode = "handle" /\ handleFuncs = <<>> /\ ran
    /\ trace = <<>>
    /\ Len(out) = 1 /\ returned.StatusCode = 204

\* C10: the headers of every returned response are a present, possibly empty map.
C10_HeadersPresent ==
    invoked =>
        /\ returned.Headers.isNil = FALSE
        /\ (ran /\ hctx[1].response # Nil) => hctx[1].response[1].Headers.isNil = FALSE

\* the returned response is one a handler set
C10_Witness ==
    /\ invoked /\ ran /\ NoError(trace)
    /\ hctx[1].response # Nil
    /\ returned = hctx[1].response[1]
    /\ returned.Headers = [isNil |-> FALSE, kv |-> <<>>]

\* C11 as stated: NoContent sets a body of length 0, so a dispatch to an unregistered
\* route with the default not-found handler returns status 404 with an empty body.
C11_NoContentEmptyBody ==
    /\ (ran /\ NoError(trace) /\ trace # <<>> /\ Last(trace).hf = "hCreated") =>
           returned = [StatusCode |-> 201, Body |-> <<>>, Headers |-> EmptyHeaders]
    /\ (dispatched /\ NormPair(req.HTTPMethod, req.Resource) \notin DOMAIN lastAdd
            /\ notFoundHandler = "notFoundHandler") =>
           returned = [StatusCode |-> 404, Body |-> <<>>, Headers |-> EmptyHeaders]

\* C12 as stated: String(status, body) sets the response body to the given string,
\* character for character, with the given status and empty headers.
C12_StringRawBody ==
    (ran /\ NoError(trace) /\ trace # <<>> /\ Last(trace).hf = "hOK") =>
        returned = [StatusCode |-> 200, Body |-> sOk, Headers |-> EmptyHeaders]

\* C14: when the event cannot be parsed into a Request, Handle and Serve return the
\* fixed 500 "Internal Server Error" response with empty headers and call no handler,
\* neither a route's nor the not-found handler.
C14_ParseFailure ==
    (invoked /\ event = MalformedEvent) =>
        /\ ~ran /\ chain = <<>> /\ trace = <<>> /\ hctx = Nil
        /\ out = <<[value |-> <<[StatusCode |-> 500, Body |-> sInternalServerError,
                                 Headers |-> EmptyHeaders]>>,
                    err |-> Nil]>>

\* a router with a route and a custom fallback received a malformed event
C14_Witness ==
    /\ invoked /\ event = MalformedEvent /\ mode = "serve"
    /\ routes # <<>> /\ notFoundHandler = "hOK"
    /\ trace = <<>> /\ returned.StatusCode = 500

\* C16: the handlers run are the HandlerFuncs of the route whose key is exactly the
\* trimmed, lower-cased "method:resource" of the request, and the not-found handler
\* when there is no such route (or it has no handlers); a route whose path is only a
\* prefix of the resource is not selected, and the request's Path and Body have no
\* part in the selection.
C16_ExactKeyOnly ==
    /\ dispatched =>
           LET k == Norm(req.HTTPMethod) \o <<":">> \o Norm(req.Resource)
           IN  chain = IF k \in DOMAIN routes /\ routes[k].HandlerFuncs # <<>>
                       THEN routes[k].HandlerFuncs
                       ELSE <<notFoundHandler>>
    /\ \A rq \in Requests, pth \in {sEmpty, sItems, sItemsSp, sItemsX}, b \in ReqBodies :
           selectHandlers(routes, notFoundHandler, [rq EXCEPT !.Path = pth, !.Body = b])
               = selectHandlers(routes, notFoundHandler, rq)

\* "get" on the resource "/items/x" with path "/items", with "get" "/items"
\* registered: the default not-found handler ran
C16_Witness ==
    /\ dispatched
    /\ req.Path = sItems /\ req.Resource = sItemsX
    /\ \E k \in DOMAIN routes :
           /\ Norm(routes[k].HTTPMethod) = Norm(req.HTTPMethod)
           /\ Norm(routes[k].ResourcePath) = Norm(req.Path)
           /\ routes[k].HandlerFuncs # <<>>
    /\ notFoundHandler = "notFoundHandler"
    /\ trace = <<[hf |-> "notFoundHandler", err |-> Nil]>>
    /\ returned.StatusCode = 404

\* the response handler hf sets on a Context whose response is absent
FreshSetBy(hf, rq) == Handle(hf, [Request |-> rq, response |-> <<>>]).ctx.response

\* C18: whatever earlier invocations did, the Context and the response of an
\* invocation come from that invocation alone: the Context's response is absent
\* unless one of its handlers set it, the returned response is the 204 default or
\* one its handlers set when none failed, and the response of its failing handler's
\* error otherwise.
C18_InvocationsIsolated ==
    (invoked /\ ran) =>
        /\ (\A i \in DOMAIN trace : FreshSetBy(trace[i].hf, req) = Nil) =>
               hctx[1].response = Nil
        /\ hctx[1].response # Nil =>
               \E i \in DOMAIN trace : hctx[1].response = FreshSetBy(trace[i].hf, req)
        /\ NoError(trace) =>
               \/ returned = [StatusCode |-> 204, Body |-> <<>>, Headers |-> EmptyHeaders]
                  /\ hctx[1].response = Nil
               \/ \E i \in DOMAIN trace : <<returned>> = FreshSetBy(trace[i].hf, req)
        /\ ~NoError(trace) =>
               returned = IF IsHTTPError(Last(trace).err)
                          THEN [StatusCode |-> Last(trace).err[1].Code,
                                Body |-> Last(trace).err[1].Message,
                                Headers |-> EmptyHeaders]
                          ELSE [StatusCode |-> 500, Body |-> sInternalServerError,
                                Headers |-> EmptyHeaders]

\* after an invocation that set a response or failed, a route whose handler sets
\* nothing returned the 204 default
C18_Witness ==
    /\ earlier /\ dispatched
    /\ trace = <<[hf |-> "hContinue", err |-> Nil]>>
    /\ hctx[1].response = Nil
    /\ returned = [StatusCode |-> 204, Body |-> <<>>, Headers |-> EmptyHeaders]

\* sequence q without its elements equal to x
RECURSIVE Without(_, _)
Without(q, x) ==
    IF q = <<>> THEN <<>>
    ELSE IF Head(q) = x THEN Without(Tail(q), x)
         ELSE <<Head(q)>> \o Without(Tail(q), x)

\* C19: JSON(status, body) with a body that cannot be encoded returns an error and
\* leaves the Context as it was; a chain whose handlers swallow that error and
\* finish without error returns what it returns without those handlers: the last
\* response set successfully, or the 204 default.
C19_FailedJSONKeepsContext ==
    ran =>
        /\ JSON(hctx[1], 200, ChanBody).err # Nil
        /\ JSON(hctx[1], 200, ChanBody).ctx = hctx[1]
        /\ (NoError(trace) /\ \E i \in DOMAIN chain : chain[i] = "hBadJSON") =>
               /\ out = executed(NewContext(req), Without(chain, "hBadJSON")).out
               /\ hctx = executed(NewContext(req), Without(chain, "hBadJSON")).hctx
               /\ returned = LastSetBy(chain, req, Len(chain))

\* a response was set, then JSON failed on a channel and the handler returned nil
C19_Witness ==
    /\ ran /\ chain = <<"hOK", "hBadJSON">> /\ NoError(trace) /\ Len(trace) = 2
    /\ hctx[1].response # Nil
    /\ returned.StatusCode = 200
    /\ returned = FreshSetBy("hOK", req)[1]

\* the letter cases of the method names the claims try
LetterCases ==
    [get |-> {sGetLower, sGET, <<"G", "e", "t">>},
     put |-> {sPut, <<"P", "U", "T">>, <<"p", "U", "t">>},
     post |-> {sPost, sPOST, sPostMixed},
     delete |-> {sDelete, sDELETE, <<"D", "e", "l", "e", "t", "e">>},
     head |-> {sHead, <<"H", "E", "A", "D">>, <<"H", "e", "a", "d">>}]

\* the registry X(path, h...) leaves
SugarRoute(x, rts, p, h) ==
    CASE x = "get" -> GETRoute(rts, p, h)
      [] x = "put" -> PUTRoute(rts, p, h)
      [] x = "post" -> POSTRoute(rts, p, h)
      [] x = "delete" -> DELETERoute(rts, p, h)
      [] x = "head" -> HEADRoute(rts, p, h)

\* the upper-case spelling of each method name
UpperCase ==
    [get |-> sGET, put |-> <<"P", "U", "T">>, post |-> sPOST, delete |-> sDELETE,
     head |-> <<"H", "E", "A", "D">>]

\* C15: from every registry the router reaches at setup, GET, PUT, POST, DELETE and HEAD of
\* (path, h...) leave a registry with the same keys as Add("X", path, h...) in any
\* letter case of X, holding the same handler sequence under every key, so that
\* every event is served alike (an existing registration is overwritten by both);
\* and the router one call returns is the one the next call registers on, so a
\* chain X(...).Y(...) registers what Add("X", ...).Add("Y", ...) registers.
C15_SugarIsAdd ==
    mode = "setup" =>
    \A x \in DOMAIN LetterCases, p \in AddPaths, h \in SugarHandlerSeqs :
        LET sugar == SugarRoute(x, routes, p, h)
        IN  /\ \A m \in LetterCases[x] :
                LET added == AddRoute(routes, m, p, h)
                IN  /\ DOMAIN sugar = DOMAIN added
                    /\ \A k \in DOMAIN sugar :
                           /\ sugar[k].HandlerFuncs = added[k].HandlerFuncs
                           /\ Norm(sugar[k].HTTPMethod) = Norm(added[k].HTTPMethod)
                           /\ Norm(sugar[k].ResourcePath) = Norm(added[k].ResourcePath)
                    /\ \A ev \in SugarEvents :
                           serveEvent(sugar, notFoundHandler, ev)
                               = serveEvent(added, notFoundHandler, ev)
            /\ \A y \in DOMAIN LetterCases, h2 \in SugarHandlerSeqs :
                   LET chained == SugarRoute(y, sugar, p, h2)
                       added2 == AddRoute(AddRoute(routes, UpperCase[x], p, h),
                                          UpperCase[y], p, h2)
                   IN  /\ DOMAIN chained = DOMAIN added2
                       /\ \A k \in DOMAIN chained :
                              chained[k].HandlerFuncs = added2[k].HandlerFuncs

\* "DELETE" on "/items" was served by the handlers DELETE registered over an
\* earlier registration, with "post" registered by Add and by POST
C15_Witness ==
    /\ dispatched /\ overwrote
    /\ Norm(req.HTTPMethod) = sDelete
    /\ \E k \in DOMAIN routes :
           /\ routes[k].HTTPMethod = sDelete
           /\ chain = routes[k].HandlerFuncs
           /\ chain = lastAdd[NormPair(sDelete, routes[k].ResourcePath)]
    /\ \E k \in DOMAIN routes : Norm(routes[k].HTTPMethod) = sPost
    /\ Cardinality(DOMAIN routes) >= 3
    /\ trace # <<>> /\ Last(trace).hf \in {"hOK", "hFail"}

\* C17: serving an invocation changes neither the routes nor the not-found handler;
\* a step that changes the routes is a registration at setup that writes one key and
\* leaves every other key, and the not-found handler, as they were; a step that
\* changes the not-found handler is at setup and leaves the routes as they were.
C17_DispatchReadOnly ==
    [][/\ mode = "serve" =>
              /\ routes' = routes
              /\ notFoundHandler' = notFoundHandler
       /\ invoked' # invoked \/ event' # event \/ out' # out =>
              /\ routes' = routes
              /\ notFoundHandler' = notFoundHandler
       /\ routes' # routes =>
              /\ mode = "setup"
              /\ notFoundHandler' = notFoundHandler
              /\ \E k \in DOMAIN routes' :
                     /\ DOMAIN routes' = DOMAIN routes \cup {k}
                     /\ \A x \in DOMAIN routes \ {k} : routes'[x] = routes[x]
       /\ notFoundHandler' # notFoundHandler =>
              /\ mode = "setup"
              /\ routes' = routes]_vars

\* a handler error, a fallback, a parse failure or a matched route was served with
\* three routes and a custom not-found handler installed, all as registered
C17_Witness ==
    /\ mode = "serve" /\ invoked /\ earlier
    /\ Cardinality(DOMAIN routes) >= 3
    /\ notFoundHandler = "hMissing"
    /\ \A np \in DOMAIN lastAdd :
           /\ routeKey(np[1], np[2]) \in DOMAIN routes
           /\ routes[routeKey(np[1], np[2])].HandlerFuncs = lastAdd[np]
    /\ \/ ~ran
       \/ ran /\ chain = <<"hMissing">>
       \/ ran /\ trace # <<>> /\ Last(trace).hf = "hFail"

\* C13 as stated: when the body is a JSON object, Bind leaves in the target, for a
\* key of the query, the query's value whether or not the body has the key, and for
\* a key only the body has, the body's value.
C13_QueryWins ==
    (call.op = "Bind" /\ result # Nil /\ ~ParseObject(call.req.Body).err) =>
        LET body == ParseObject(call.req.Body).obj
            query == call.req.QueryStringParameters.kv
        IN  \A key \in {sName, sAge} :
                LET f == IF key = sName THEN sNameField ELSE sAgeField
                IN  /\ key \in DOMAIN query => result[1].m[f] = query[key]
                    /\ (key \in DOMAIN body /\ key \notin DOMAIN query) =>
                           result[1].m[f] = body[key]

\* C20 as stated: the registrations of two normalized (method, path) pairs never
\* share a key, so under the key of every pair registered the registry holds a route
\* of that pair with the handlers last registered for it.
C20_KeyInjective ==
    \A np \in DOMAIN lastAdd :
        LET k == routeKey(np[1], np[2])
        IN  /\ k \in DOMAIN routes
            /\ NormPair(routes[k].HTTPMethod, routes[k].ResourcePath) = np
            /\ routes[k].HandlerFuncs = lastAdd[np]

====
